---- MODULE Spec2Model ----
(***************************************************************************)
(* Model of recognition/an_perceiver: the Perceiver orchestrator           *)
(* (perceiver.py), the dataset preprocessing pipeline (preprocessing.py)   *)
(* and the part of run_experiment (experiment.py) that calls them.         *)
(*                                                                         *)
(* Tensors are uninterpreted terms: a tensor produced by applying layer    *)
(* object `obj` to arguments q and kv is the 4-tuple <<kind, obj, q, kv>>, *)
(* so two tensors are equal exactly when they were produced by the same    *)
(* objects applied in the same order to the same values.                   *)
(***************************************************************************)
EXTENDS Integers, Sequences, FiniteSets, TLC

VARIABLES
    config,     \* arguments given to Perceiver(...), <<>> before the call
    status,     \* "none" | "constructed" | "error": outcome of Perceiver(...)
    model,      \* attributes of the Perceiver instance (self.*)
    objs,       \* heap of layer objects, indexed by object id
    passes,     \* frames of the forward passes (Perceiver.call) in progress
    results,    \* <<inputs, logits>> pairs returned by finished passes
    pc,         \* position in run_experiment / preprocess
    caller,     \* who called preprocess: "none" | "run_experiment" | "direct"
    kwargs,     \* keyword arguments of the call of preprocess
    args,       \* bound parameters of preprocess
    splits,     \* preprocess locals train, validation, test
    ret         \* datasets returned by preprocess

vars == <<config, status, model, objs, passes, results, pc, caller, kwargs, args, splits, ret>>

perceiverVars == <<config, status, model, objs, passes, results>>
preprocessVars == <<pc, caller, kwargs, args, splits, ret>>

-----------------------------------------------------------------------------
(* Bounds *)

MaxBlocks == 2
MaxSelfAttends == 2
MaxPasses == 2
NumInputs == 1
MaxTrain == 2
MaxEval == 1
MaxBatch == 2

-----------------------------------------------------------------------------
(* Tensors as terms *)

None == <<>>

InputTensor(n) == <<"input", n, None, None, None>>

Inputs == {InputTensor(n) : n \in 1..NumInputs}

\* layer(q, kv) for the layer object with id obj; weights is the current value
\* of the layer's learned parameters
Apply(obj, q, kv) == <<objs[obj].kind, obj, <<objs[obj].weights>>, q, kv>>

KindOf(t) == t[1]
ObjOf(t) == t[2]
QueryOf(t) == t[4]
KeyValueOf(t) == t[5]

-----------------------------------------------------------------------------
(* layers.*: constructors of the layer classes *)

\* layers.Latent, layers.CrossAttention, layers.SelfAttention and
\* layers.ClassificationDecoder reject a zero size at construction
LayerCtorRaises(kind, arg) ==
    /\ kind \in {"Latent", "CrossAttention", "SelfAttention", "ClassificationDecoder"}
    /\ arg = 0

NewLayer(kind, arg) == [kind |-> kind, arg |-> arg, weights |-> 0]

-----------------------------------------------------------------------------
(* Perceiver.__init__ *)

Configs ==
    [num_blocks : 0..MaxBlocks,
     num_self_attends_per_block : 0..MaxSelfAttends,
     num_cross_heads : 0..1,
     num_self_attend_heads : 0..1,
     latent_dim : 0..1,
     latent_channels : {1},
     num_freq_bands : 0..1,
     num_classes : {0, 2}]

\* one self-attention stack per block instead of one shared stack
CtorCallsPerBlock(cfg) ==
    <<[kind |-> "Latent", arg |-> cfg.latent_dim],
      [kind |-> "FourierPositionEmbedding", arg |-> cfg.num_freq_bands],
      [kind |-> "CrossAttention", arg |-> cfg.num_cross_heads]>>
    \o [i \in 1..(cfg.num_self_attends_per_block * cfg.num_blocks) |->
          [kind |-> "SelfAttention", arg |-> cfg.num_self_attend_heads]]
    \o <<[kind |-> "ClassificationDecoder", arg |-> cfg.num_classes]>>

\* the layer constructor calls of __init__, in program order
CtorCalls(cfg) ==
    <<[kind |-> "Latent", arg |-> cfg.latent_dim],
      [kind |-> "FourierPositionEmbedding", arg |-> cfg.num_freq_bands],
      [kind |-> "CrossAttention", arg |-> cfg.num_cross_heads]>>
    \o [i \in 1..cfg.num_self_attends_per_block |->
          [kind |-> "SelfAttention", arg |-> cfg.num_self_attend_heads]]
    \o <<[kind |-> "ClassificationDecoder", arg |-> cfg.num_classes]>>

\* index of the first constructor call that raises, 0 if none does
FirstRaise(calls) ==
    LET bad == {i \in 1..Len(calls) : LayerCtorRaises(calls[i].kind, calls[i].arg)}
    IN  IF bad = {} THEN 0 ELSE CHOOSE i \in bad : \A j \in bad : i <= j

NoModel == [num_blocks |-> 0, latent |-> 0, fourier_enc |-> 0,
            cross_attention |-> 0, self_attentions |-> <<>>, logits |-> 0]

Construct(cfg) ==
    /\ status = "none"
    /\ config' = cfg
    /\ LET calls == CtorCalls(cfg)
           r == FirstRaise(calls)
           S == Len(calls) - 4
       IN  IF r = 0
           THEN /\ objs' = [i \in 1..Len(calls) |-> NewLayer(calls[i].kind, calls[i].arg)]
                /\ model' = [num_blocks |-> cfg.num_blocks,
                             latent |-> 1,
                             fourier_enc |-> 2,
                             cross_attention |-> 3,
                             self_attentions |-> [i \in 1..S |-> 3 + i],
                             logits |-> Len(calls)]
                /\ status' = "constructed"
           ELSE \* the exception leaves __init__; no instance is returned
                /\ objs' = [i \in 1..(r - 1) |-> NewLayer(calls[i].kind, calls[i].arg)]
                /\ model' = NoModel
                /\ status' = "error"
    /\ UNCHANGED <<passes, results>>
    /\ UNCHANGED preprocessVars

-----------------------------------------------------------------------------
(* Perceiver.call *)

PassIds == 1..MaxPasses

IdleFrame == [pc |-> "idle", inputs |-> None, latent_array |-> None,
              inputs_enc |-> None, z |-> None, nb |-> 0, b |-> 0,
              log |-> <<>>, out |-> None]

\* entry of call(inputs)
CallStart(p, x) ==
    /\ status = "constructed"
    /\ passes[p].pc = "idle"
    /\ passes' = [passes EXCEPT ![p] = [IdleFrame EXCEPT !.pc = "latent", !.inputs = x]]
    /\ UNCHANGED <<config, status, model, objs, results>>
    /\ UNCHANGED preprocessVars

\* latent_array = self.latent(inputs)
CallLatent(p) ==
    /\ passes[p].pc = "latent"
    /\ LET t == Apply(model.latent, passes[p].inputs, None)
       IN  passes' = [passes EXCEPT ![p].latent_array = t,
                                    ![p].log = Append(@, t),
                                    ![p].pc = "fourier"]
    /\ UNCHANGED <<config, status, model, objs, results>>
    /\ UNCHANGED preprocessVars

\* inputs_enc = self.fourier_enc(inputs); then reduce(attn_block,
\* range(self.num_blocks), latent_array) starts with z = latent_array
CallFourier(p) ==
    /\ passes[p].pc = "fourier"
    /\ LET t == Apply(model.fourier_enc, passes[p].inputs, None)
       IN  passes' = [passes EXCEPT ![p].inputs_enc = t,
                                    ![p].log = Append(@, t),
                                    ![p].z = passes[p].latent_array,
                                    ![p].nb = model.num_blocks,
                                    ![p].b = 0,
                                    ![p].pc = "block"]
    /\ UNCHANGED <<config, status, model, objs, results>>
    /\ UNCHANGED preprocessVars

\* the inner reduce of attn_block from the i-th element of
\* self.self_attentions on: the tensors returned by the calls attend(z)
RECURSIVE SelfTerms(_, _)
SelfTerms(z, i) ==
    IF i > Len(model.self_attentions)
    THEN <<>>
    ELSE LET t == Apply(model.self_attentions[i], z, None)
         IN  <<t>> \o SelfTerms(t, i + 1)

\* the cross-attention attends to the latent instead of the encoded inputs
BlockTermsLatentOnly(z, inputs_enc) ==
    LET c == Apply(model.cross_attention, z, z)
    IN  <<c>> \o SelfTerms(c, 1)

\* attn_block(z): the tensors returned by its calls, in call order; the
\* first is self.cross_attention(z, inputs_enc), the initial value of the
\* inner reduce, and the last is the value attn_block returns
BlockTerms(z, inputs_enc) ==
    LET c == Apply(model.cross_attention, z, inputs_enc)
    IN  <<c>> \o SelfTerms(c, 1)

\* one step of the outer reduce: z = attn_block(z, b) for the next b of
\* range(self.num_blocks)
CallBlock(p) ==
    /\ passes[p].pc = "block"
    /\ passes[p].b < passes[p].nb
    /\ LET ts == BlockTerms(passes[p].z, passes[p].inputs_enc)
       IN  passes' = [passes EXCEPT ![p].z = ts[Len(ts)],
                                    ![p].log = @ \o ts,
                                    ![p].b = @ + 1]
    /\ UNCHANGED <<config, status, model, objs, results>>
    /\ UNCHANGED preprocessVars

\* the decoder is applied one iteration early
CallLogitsEarly(p) ==
    /\ passes[p].pc = "block"
    /\ passes[p].b >= passes[p].nb - 1
    /\ LET t == Apply(model.logits, passes[p].z, None)
       IN  passes' = [passes EXCEPT ![p].out = t,
                                    ![p].log = Append(@, t),
                                    ![p].pc = "done"]
    /\ UNCHANGED <<config, status, model, objs, results>>
    /\ UNCHANGED preprocessVars

\* return self.logits(z)
CallLogits(p) ==
    /\ passes[p].pc = "block"
    /\ passes[p].b = passes[p].nb
    /\ LET t == Apply(model.logits, passes[p].z, None)
       IN  passes' = [passes EXCEPT ![p].out = t,
                                    ![p].log = Append(@, t),
                                    ![p].pc = "done"]
    /\ UNCHANGED <<config, status, model, objs, results>>
    /\ UNCHANGED preprocessVars

\* the pass keeps its final latent in the model's latent layer
ReturnKeepsLatent(p) ==
    /\ passes[p].pc = "done"
    /\ results' = results \cup {<<passes[p].inputs, passes[p].out>>}
    /\ passes' = [passes EXCEPT ![p] = IdleFrame]
    /\ objs' = [objs EXCEPT ![model.latent].weights = 1]
    /\ UNCHANGED <<config, status, model>>
    /\ UNCHANGED preprocessVars

\* the caller receives the logits and the frame is discarded
Return(p) ==
    /\ passes[p].pc = "done"
    /\ results' = results \cup {<<passes[p].inputs, passes[p].out>>}
    /\ passes' = [passes EXCEPT ![p] = IdleFrame]
    /\ UNCHANGED <<config, status, model, objs>>
    /\ UNCHANGED preprocessVars

PreprocessIdle ==
    /\ pc = "idle"
    /\ caller = "none"
    /\ kwargs = <<>>
    /\ args = <<>>
    /\ splits = <<>>
    /\ ret = <<>>

InitPerceiver ==
    /\ config = <<>>
    /\ status = "none"
    /\ model = NoModel
    /\ objs = <<>>
    /\ passes = [p \in PassIds |-> IdleFrame]
    /\ results = {}
    /\ PreprocessIdle

NextPerceiver ==
    \/ \E cfg \in Configs : Construct(cfg)
    \/ \E p \in PassIds, x \in Inputs : CallStart(p, x)
    \/ \E p \in PassIds : CallLatent(p)
    \/ \E p \in PassIds : CallFourier(p)
    \/ \E p \in PassIds : CallBlock(p)
    \/ \E p \in PassIds : CallLogits(p)
    \/ \E p \in PassIds : Return(p)

SpecPerceiver == InitPerceiver /\ [][NextPerceiver]_vars

-----------------------------------------------------------------------------
(* Properties of the Perceiver *)

AttentionKinds == {"CrossAttention", "SelfAttention"}

IsAttention(t) == KindOf(t) \in AttentionKinds

NumObjs(kind) == Cardinality({o \in DOMAIN objs : objs[o].kind = kind})

\* the attention applications of pass p so far, in order
AttnLog(p) == SelectSeq(passes[p].log, IsAttention)

\* the layer object that the k-th attention application of a pass must use
ExpectedObj(k) ==
    LET j == (k - 1) % (1 + Len(model.self_attentions))
    IN  IF j = 0 THEN model.cross_attention ELSE model.self_attentions[j]

\* C1: weight sharing. A constructed Perceiver owns exactly one
\* cross-attention object and exactly num_self_attends_per_block
\* self-attention objects whatever num_blocks is, all distinct, and every
\* block of every forward pass applies that cross-attention object and, as
\* its i-th self-attention, the i-th of those self-attention objects, with
\* the same weights.
C1_WeightSharing ==
    status = "constructed" =>
        /\ NumObjs("CrossAttention") = 1
        /\ NumObjs("SelfAttention") = config.num_self_attends_per_block
        /\ Len(model.self_attentions) = config.num_self_attends_per_block
        /\ objs[model.cross_attention].kind = "CrossAttention"
        /\ \A i \in DOMAIN model.self_attentions :
              /\ objs[model.self_attentions[i]].kind = "SelfAttention"
              /\ \A j \in DOMAIN model.self_attentions :
                    model.self_attentions[i] = model.self_attentions[j] => i = j
        /\ \A p \in PassIds :
              LET a == AttnLog(p)
                  S == config.num_self_attends_per_block
              IN  \A k \in DOMAIN a :
                    /\ ObjOf(a[k]) = ExpectedObj(k)
                    /\ k > 1 + S =>
                          /\ ObjOf(a[k]) = ObjOf(a[k - (1 + S)])
                          /\ a[k][3] = a[k - (1 + S)][3]

C1_Witness ==
    \E p \in PassIds :
        /\ passes[p].pc = "done"
        /\ passes[p].nb = 2
        /\ config.num_self_attends_per_block = 1

\* C2: orchestration order. At every point of a forward pass the attention
\* applications made so far are a prefix of (cross, self_1, ..., self_S)
\* repeated B times, each taking the previous application's output (the
\* initial latent for the first) as its query source; the decoder is applied
\* at most once, only after all B*(1+S) applications, to the output of the
\* last one (to the initial latent when B = 0), and a finished pass has made
\* exactly B*(1+S) attention applications.
C2_OrchestrationOrder ==
    \A p \in PassIds :
        passes[p].pc # "idle" =>
            LET a == AttnLog(p)
                log == passes[p].log
                B == config.num_blocks
                S == config.num_self_attends_per_block
                last == IF Len(a) = 0 THEN passes[p].latent_array ELSE a[Len(a)]
                decodes == {k \in DOMAIN log : KindOf(log[k]) = "ClassificationDecoder"}
            IN  /\ Len(a) <= B * (1 + S)
                /\ \A k \in DOMAIN a :
                      /\ KindOf(a[k]) = IF (k - 1) % (1 + S) = 0
                                        THEN "CrossAttention" ELSE "SelfAttention"
                      /\ ObjOf(a[k]) = ExpectedObj(k)
                      /\ QueryOf(a[k]) = IF k = 1 THEN passes[p].latent_array ELSE a[k - 1]
                /\ \A k \in DOMAIN log : IsAttention(log[k]) => log[k] = a[k - 2]
                /\ decodes # {} =>
                      /\ decodes = {Len(log)}
                      /\ Len(a) = B * (1 + S)
                      /\ log[Len(log)] = Apply(model.logits, last, None)
                      /\ passes[p].out = log[Len(log)]
                /\ passes[p].pc = "done" => decodes # {}

C2_Witness ==
    \E p \in PassIds :
        /\ passes[p].pc = "done"
        /\ config.num_blocks = 2
        /\ config.num_self_attends_per_block = 2
        /\ Len(AttnLog(p)) = 6

\* C3: the Fourier-encoded input is computed exactly once per forward pass,
\* from the pass's inputs and before any attention application; every
\* cross-attention application has that encoded array as key/value source
\* and the current latent as query source, and no self-attention application
\* takes the encoded input.
C3_EncodedOnce ==
    \A p \in PassIds :
        LET log == passes[p].log
            encs == {k \in DOMAIN log : KindOf(log[k]) = "FourierPositionEmbedding"}
        IN  /\ encs \subseteq {2}
            /\ (\E k \in DOMAIN log : IsAttention(log[k])) => encs = {2}
            /\ encs = {2} =>
                  /\ log[2] = Apply(model.fourier_enc, passes[p].inputs, None)
                  /\ passes[p].inputs_enc = log[2]
            /\ \A k \in DOMAIN log :
                  /\ KindOf(log[k]) = "CrossAttention" =>
                        /\ k > 2
                        /\ KeyValueOf(log[k]) = log[2]
                        /\ QueryOf(log[k]) = log[IF k = 3 THEN 1 ELSE k - 1]
                  /\ KindOf(log[k]) = "SelfAttention" =>
                        /\ k > 2
                        /\ KeyValueOf(log[k]) = None
                        /\ QueryOf(log[k]) # log[2]

C3_Witness ==
    \E p \in PassIds :
        /\ passes[p].pc = "done"
        /\ passes[p].nb = 2
        /\ Cardinality({k \in DOMAIN passes[p].log :
                           KindOf(passes[p].log[k]) = "CrossAttention"}) = 2
        /\ config.num_self_attends_per_block = 2

\* every pass starts from the learned initial latent, and passes over the
\* same inputs have made the same applications and returned the same logits
SamePassesAgree ==
    /\ \A p \in PassIds :
          passes[p].latent_array # None =>
              passes[p].latent_array = <<"Latent", model.latent, <<0>>, passes[p].inputs, None>>
    /\ \A p, q \in PassIds :
          (passes[p].inputs = passes[q].inputs /\ Len(passes[p].log) <= Len(passes[q].log)) =>
              passes[p].log = SubSeq(passes[q].log, 1, Len(passes[p].log))
    /\ \A r1, r2 \in results : r1[1] = r2[1] => r1[2] = r2[2]
    /\ \A p \in PassIds, r \in results :
          (passes[p].pc = "done" /\ passes[p].inputs = r[1]) => passes[p].out = r[2]

\* C4: no cross-pass state. No step of a forward pass changes an attribute
\* of the model or a layer object's parameters, every pass starts from the
\* same learned initial latent, and passes over the same inputs, in any
\* sequence or interleaving, apply the same operations to the same values
\* and return the same logits.
C4_NoCrossPassState ==
    /\ []SamePassesAgree
    /\ [][status = "constructed" => UNCHANGED <<config, status, model, objs>>]_vars

C4_Witness ==
    \E p, q \in PassIds :
        /\ p # q
        /\ passes[p].pc = "done"
        /\ passes[q].pc = "block"
        /\ passes[q].b = 1
        /\ passes[p].inputs = passes[q].inputs
        /\ <<passes[p].inputs, passes[p].out>> \in results

Degenerate(cfg) ==
    \/ cfg.num_cross_heads = 0
    \/ cfg.num_self_attend_heads = 0
    \/ cfg.latent_dim = 0
    \/ cfg.num_classes = 0

\* C5: degenerate configurations are rejected at construction. Constructing
\* a Perceiver with zero cross-attention heads, zero self-attention heads,
\* latent_dim = 0 or num_classes = 0 ends in an error and yields no model on
\* which a forward pass can be started.
C5_DegenerateRejected ==
    (status # "none" /\ Degenerate(config)) =>
        /\ status = "error"
        /\ \A p \in PassIds : passes[p].pc = "idle"

-----------------------------------------------------------------------------
(* preprocessing.py: images and the per-sample maps *)

\* images are indexed image[row][column][channel]
Height(image) == Len(image)
Width(image) == Len(image[1])

\* the image of a raw sample of class label, rows x columns x channels
RawImage(label) ==
    IF label % 2 = 0
    THEN << << <<0>>, <<1>> >> >>
    ELSE << << <<1>>, <<1>> >> >>

RECURSIVE SumSeq(_)
SumSeq(s) == IF s = <<>> THEN 0 ELSE s[1] + SumSeq(Tail(s))

RECURSIVE Concat(_)
Concat(ss) == IF ss = <<>> THEN <<>> ELSE ss[1] \o Concat(Tail(ss))

\* all values of an image, row by row
Flatten(image) == Concat(Concat(image))

Max(a, b) == IF a >= b THEN a ELSE b

\* tf.image.flip_left_right
FlipLeftRight(image) ==
    [r \in 1..Height(image) |->
        [c \in 1..Width(image) |-> image[r][Width(image) + 1 - c]]]

\* hflip: flip the image, label -> 1 - label (elementwise on a vector label)
hflip(sample) ==
    [image |-> FlipLeftRight(sample.image),
     label |-> [k \in DOMAIN sample.label |-> 1 - sample.label[k]]]

\* image_norm: tf.image.per_image_standardization, (x - mean) / max(stddev,
\* 1/sqrt(N)). With N values of sum S and sum of squares Q this is
\* (N*x - S) / sqrt(max(N*Q - S*S, N)); the value num / sqrt(den2) is
\* represented exactly as the pair <<num, den2>>.
image_norm(sample) ==
    LET xs == Flatten(sample.image)
        N == Len(xs)
        S == SumSeq(xs)
        Q == SumSeq([k \in 1..N |-> xs[k] * xs[k]])
        den2 == Max(N * Q - S * S, N)
    IN  [image |-> [r \in 1..Height(sample.image) |->
                      [c \in 1..Width(sample.image) |->
                          [k \in 1..Len(sample.image[r][c]) |->
                              <<N * sample.image[r][c][k] - S, den2>>]]],
         label |-> sample.label]

\* one_hot: tf.one_hot(label, depth=num_classes)
one_hot(sample, num_classes) ==
    [image |-> sample.image,
     label |-> [k \in 1..num_classes |-> IF k = sample.label + 1 THEN 1 ELSE 0]]

\* the central crop taken by keras' smart_resize for a height x width image
\* and a target size: <<first row, first column, rows, columns>>
CropBox(height, width, size) ==
    LET crop_height == IF (width * size[1]) \div size[2] < height
                       THEN (width * size[1]) \div size[2] ELSE height
        crop_width == IF (height * size[2]) \div size[1] < width
                      THEN (height * size[2]) \div size[1] ELSE width
    IN  <<(height - crop_height) \div 2, (width - crop_width) \div 2,
          crop_height, crop_width>>

\* smart_resize: central crop to the target aspect ratio, then resize to
\* the target size; the sizes used here make the crop the target size, where
\* the resize changes nothing
smart_resize(sample, image_dims) ==
    LET box == CropBox(Height(sample.image), Width(sample.image), image_dims)
    IN  [image |-> [r \in 1..box[3] |->
                      [c \in 1..box[4] |-> sample.image[box[1] + r][box[2] + c]]],
         label |-> sample.label]

\* _smart_resize: the identity when image_dims is None
MaybeResize(sample, image_dims) ==
    IF image_dims = None THEN sample ELSE smart_resize(sample, image_dims)

\* split.map(hflip)
MapHflip(ds) == [k \in 1..Len(ds) |-> hflip(ds[k])]

-----------------------------------------------------------------------------
(* preprocessing.py: preprocess, and its call in experiment.py *)

DefaultNumClasses == 2
DefaultTrainBatchSize == 64
DefaultEvalBatchSize == 16
MinShuffleBuffer == 5120

\* the parameters of preprocess after train, validation, test
Defaults ==
    [num_classes |-> DefaultNumClasses,
     image_dims |-> None,
     hflip_concat |-> TRUE,
     train_batch_size |-> DefaultTrainBatchSize,
     eval_batch_size |-> DefaultEvalBatchSize]

\* a call with three positional arguments and keyword arguments kws raises
\* TypeError when a keyword is not a parameter of preprocess
BindRaises(kws) ==
    ~(kws \subseteq DOMAIN Defaults)

Bind(splitArgs, kws) ==
    [k \in DOMAIN Defaults |-> IF k \in DOMAIN kws THEN kws[k] ELSE Defaults[k]]
    @@ [train |-> splitArgs[1], validation |-> splitArgs[2], test |-> splitArgs[3]]

SeqsUpTo(S, n) == UNION {[1..m -> S] : m \in 0..n}

RawSamples(num_classes) ==
    {[image |-> RawImage(label), label |-> label] : label \in 0..(num_classes - 1)}

\* the three splits of a dataset with num_classes classes
SplitChoices(num_classes) ==
    {<<tr, va, te>> : tr \in SeqsUpTo(RawSamples(num_classes), MaxTrain),
                      va \in SeqsUpTo(RawSamples(num_classes), MaxEval),
                      te \in SeqsUpTo(RawSamples(num_classes), MaxEval)}

\* None, or a target size that the central crop of a raw image has exactly
ImageDimsChoices ==
    {None} \cup {d \in (1..2) \X (1..2) :
                    \A label \in 0..1 :
                        LET box == CropBox(Height(RawImage(label)), Width(RawImage(label)), d)
                        IN  <<box[3], box[4]>> = d}

ClassChoices == {2, 3}
BatchChoices == 1..MaxBatch

\* run_experiment up to its call of preprocess: tfds.load, then
\* preprocess(*splits, batch_size=..., num_classes=..., image_dims=...)
RunExperiment(loaded, num_classes, opts) ==
    /\ pc = "idle"
    /\ caller' = "run_experiment"
    /\ kwargs' = [batch_size |-> opts.batch_size,
                  num_classes |-> num_classes,
                  image_dims |-> opts.image_dims]
    /\ IF BindRaises(DOMAIN kwargs')
       THEN /\ pc' = "TypeError"
            /\ args' = <<>>
            /\ splits' = <<>>
       ELSE /\ pc' = "common"
            /\ args' = Bind(loaded, kwargs')
            /\ splits' = loaded
    /\ UNCHANGED ret
    /\ UNCHANGED perceiverVars

\* a call of preprocess that names its parameters
CallPreprocess(given, kws) ==
    /\ pc = "idle"
    /\ caller' = "direct"
    /\ kwargs' = kws
    /\ IF BindRaises(DOMAIN kws)
       THEN /\ pc' = "TypeError"
            /\ args' = <<>>
            /\ splits' = <<>>
       ELSE /\ pc' = "common"
            /\ args' = Bind(given, kws)
            /\ splits' = given
    /\ UNCHANGED ret
    /\ UNCHANGED perceiverVars

\* common preprocessing: image_norm, _smart_resize, _one_hot on each split
Common(sample) ==
    one_hot(MaybeResize(image_norm(sample), args.image_dims), args.num_classes)

\* split.map(image_norm).map(_smart_resize).map(_one_hot)
MapCommon(ds) == [k \in 1..Len(ds) |-> Common(ds[k])]

PreCommon ==
    /\ pc = "common"
    /\ splits' = [k \in 1..3 |-> MapCommon(splits[k])]
    /\ pc' = "hflip"
    /\ UNCHANGED <<caller, kwargs, args, ret>>
    /\ UNCHANGED perceiverVars

\* every split is concatenated with its flipped copy
PreHflipAllSplits ==
    /\ pc = "hflip"
    /\ splits' = IF args.hflip_concat
                 THEN [k \in 1..3 |-> splits[k] \o MapHflip(splits[k])]
                 ELSE splits
    /\ pc' = "batch"
    /\ UNCHANGED <<caller, kwargs, args, ret>>
    /\ UNCHANGED perceiverVars

\* if hflip_concat: train and validation are concatenated with their
\* flipped copies
PreHflip ==
    /\ pc = "hflip"
    /\ splits' = IF args.hflip_concat
                 THEN [k \in 1..3 |->
                         IF k \in {1, 2}
                         THEN splits[k] \o MapHflip(splits[k])
                         ELSE splits[k]]
                 ELSE splits
    /\ pc' = "batch"
    /\ UNCHANGED <<caller, kwargs, args, ret>>
    /\ UNCHANGED perceiverVars

\* cache().shuffle(max(cardinality // 4, 5120)).batch(batch_size).prefetch()
Pipeline(split, batch_size) ==
    [samples |-> split,
     buffer_size |-> Max(Len(split) \div 4, MinShuffleBuffer),
     batch_size |-> batch_size]

PreBatch ==
    /\ pc = "batch"
    /\ ret' = <<Pipeline(splits[1], args.train_batch_size),
                Pipeline(splits[2], args.train_batch_size),
                Pipeline(splits[3], args.eval_batch_size)>>
    /\ pc' = "done"
    /\ UNCHANGED <<caller, kwargs, args, splits>>
    /\ UNCHANGED perceiverVars

\* sizes of the batches an iteration of a returned dataset yields
BatchLens(ds) ==
    LET n == Len(ds.samples)
        full == n \div ds.batch_size
    IN  [k \in 1..full |-> ds.batch_size]
        \o (IF n % ds.batch_size = 0 THEN <<>> ELSE <<n % ds.batch_size>>)

PerceiverIdle ==
    /\ config = <<>>
    /\ status = "none"
    /\ model = NoModel
    /\ objs = <<>>
    /\ passes = [p \in PassIds |-> IdleFrame]
    /\ results = {}

InitPreprocess ==
    /\ PerceiverIdle
    /\ PreprocessIdle

NextPreprocess ==
    \/ /\ pc = "idle"
       /\ \E num_classes \in ClassChoices :
          \E loaded \in SplitChoices(num_classes) :
             \E opts \in [batch_size : BatchChoices, image_dims : ImageDimsChoices] :
                RunExperiment(loaded, num_classes, opts)
    \/ /\ pc = "idle"
       /\ \E num_classes \in ClassChoices :
          \E given \in SplitChoices(num_classes) :
             \E kws \in [num_classes : {num_classes},
                            image_dims : ImageDimsChoices,
                            hflip_concat : BOOLEAN,
                            train_batch_size : BatchChoices] :
                CallPreprocess(given, kws)
    \/ PreCommon
    \/ PreHflip
    \/ PreBatch

SpecPreprocess == InitPreprocess /\ [][NextPreprocess]_vars

-----------------------------------------------------------------------------
(* Properties of preprocess and of its call *)

\* the k-th split as given to preprocess
ArgSplit(k) == IF k = 1 THEN args.train ELSE IF k = 2 THEN args.validation ELSE args.test

\* C6: --batch-size is the batch size of all splits. For a run of
\* run_experiment with --batch-size n the call of preprocess succeeds, and
\* each of the three returned splits is batched with batch size n.
C6_BatchSizeAllSplits ==
    caller = "run_experiment" =>
        /\ pc # "TypeError"
        /\ pc = "done" =>
              \A k \in 1..3 :
                 /\ ret[k].batch_size = kwargs.batch_size
                 /\ \A j \in DOMAIN BatchLens(ret[k]) :
                       /\ BatchLens(ret[k])[j] <= kwargs.batch_size
                       /\ j < Len(BatchLens(ret[k])) =>
                             BatchLens(ret[k])[j] = kwargs.batch_size

Marked(label) == {j \in DOMAIN label : label[j] = 1}

IsOneHot(label, num_classes) ==
    /\ Len(label) = num_classes
    /\ Cardinality(Marked(label)) = 1
    /\ \A j \in DOMAIN label : label[j] \in {0, 1}

\* C8: one-hot labels on all splits. For every num_classes >= 2 and class
\* labels in 0..num_classes-1, every sample of each returned split, the
\* flipped copies included, has a label vector of length num_classes with
\* exactly one entry 1 and the others 0, and a flipped copy marks a class
\* different from its original's class.
C8_OneHotAllSplits ==
    pc = "done" =>
        \A k \in 1..3 :
            LET n == Len(ArgSplit(k))
                out == ret[k].samples
            IN  \A i \in DOMAIN out :
                   /\ IsOneHot(out[i].label, args.num_classes)
                   /\ i > n => Marked(out[i].label) # {ArgSplit(k)[i - n].label + 1}

====
